---- MODULE Spec2Model ----
(***************************************************************************)
(* A model of the tensor bookkeeping of torchmultimodal's MDETR model      *)
(* (src/torchmultimodal/models/mdetr/model.py) and of the momentum-model   *)
(* parameter copy exercised by src/test/models/test_albef.py.              *)
(*                                                                         *)
(* Tensors are functions over 0-based index tuples, as in the source.      *)
(* Pixel values are counted in halves (the integer 3 stands for 1.5), so   *)
(* that the cast of a float32 value to int64 (truncation toward zero) is   *)
(* an operation on integers that can lose information.                     *)
(***************************************************************************)
EXTENDS Integers, Sequences, FiniteSets, TLC

VARIABLES
    pc,               \* position of the call being modelled
    images,           \* List[Tensor] handed to _pad_images / forward
    padded_images,    \* first result of _pad_images
    image_mask,       \* second result of _pad_images
    text,             \* List[Tensor] handed to _pad_text / forward
    padding_idx,      \* the padding_idx argument of _pad_text
    padded_text,      \* first result of _pad_text
    text_mask,        \* second result of _pad_text
    query_embed,      \* self.query_embed.weight, one tag per row
    extra_query_embeddings, \* self.extra_query_embeddings (None or its weight rows)
    num_classes,      \* the num_classes the class_embed head was built with
    dec_layers,       \* first dimension of the decoder hidden states
    query,            \* the local query_embed of forward, handed to the transformer
    hs,               \* transformer_output.decoder_hidden_states
    output,           \* the MDETRModelOutput returned by forward
    models,           \* ALBEFModel.models
    models_m          \* ALBEFModel.models_m

vars == <<pc, images, padded_images, image_mask, text, padding_idx, padded_text,
          text_mask, query_embed, extra_query_embeddings, num_classes, dec_layers,
          query, hs, output, models, models_m>>

(***************************************************************************)
(* Bounds of the model.                                                    *)
(***************************************************************************)
MaxImages == 2
MaxSide == 2
MaxTexts == 2
MaxTextLen == 2
MaxQueries == 2
MaxExtra == 2
MaxLayers == 2
MaxClasses == 2
MaxParamVal == 1

\* Optional[...] values: None, or a value that is present
NoneVal == [is_none |-> TRUE]

Some(x) == [is_none |-> FALSE, value |-> x]

IsNone(x) == x.is_none

Range(n) == 0 .. (n - 1)

Max2(a, b) == IF a >= b THEN a ELSE b

Min2(a, b) == IF a <= b THEN a ELSE b

RECURSIVE MaxOver(_, _, _)
\* max(f[1], ..., f[k]) for a sequence of integers, Python's max()
MaxOver(f, k, acc) == IF k = 0 THEN acc ELSE MaxOver(f, k - 1, Max2(acc, f[k]))

PyMax(s) == MaxOver(s, Len(s), s[1])

(***************************************************************************)
(* Python indexing and slicing of a 0-based sequence of length n.          *)
(***************************************************************************)
SizeOf(f) == Cardinality(DOMAIN f)

\* t[i] with a possibly negative index
PyIndex(i, n) == IF i < 0 THEN i + n ELSE i

\* the clamping slice.indices() applies to a start or stop value
SliceBound(i, n) == IF i < 0 THEN Max2(i + n, 0) ELSE Min2(i, n)

\* t[start:]
SliceFrom(f, start) ==
    LET n == SizeOf(f)
        lo == SliceBound(start, n)
    IN  [k \in Range(n - lo) |-> f[lo + k]]

\* t[:stop]
SliceTo(f, stop) ==
    LET n == SizeOf(f)
        hi == SliceBound(stop, n)
    IN  [k \in Range(hi) |-> f[k]]

(***************************************************************************)
(* Image tensors: a dtype, a shape (C, H, W) and the data.                 *)
(***************************************************************************)
DTypes == {"float32", "int64"}

ChannelChoices == {1, 3}

\* pixel values in halves: 0, 0.5, 1, 1.5, -1.5
Palette == <<0, 1, 2, 3, -3>>

Seeds == {0, 1}

\* Tensor.to(dtype) / copy_ into a tensor of that dtype: float -> int truncates
Cast(v, dtype) ==
    IF dtype = "int64"
    THEN IF v >= 0 THEN (v \div 2) * 2 ELSE -(((-v) \div 2) * 2)
    ELSE v

Idx3(shape) == Range(shape[1]) \X Range(shape[2]) \X Range(shape[3])

Idx4(shape) == Range(shape[1]) \X Range(shape[2]) \X Range(shape[3]) \X Range(shape[4])

PixelOf(seed, p) == Palette[((seed + 3 * p[1] + 2 * p[2] + p[3]) % Len(Palette)) + 1]

ImageOf(dtype, shape, seed) ==
    [dtype |-> dtype, shape |-> shape,
     data |-> [p \in Idx3(shape) |-> Cast(PixelOf(seed, p), dtype)]]

ImageShapes == {<<c, h, w>> : c \in ChannelChoices, h \in 1 .. MaxSide, w \in 1 .. MaxSide}

ImageSpecs == DTypes \X ImageShapes

\* the lists of n images
ImageLists(n) ==
    {[i \in 1 .. n |-> ImageOf(d[i][1], d[i][2], s + i)] :
        d \in [1 .. n -> ImageSpecs], s \in Seeds}

(***************************************************************************)
(* MDETR._pad_images                                                       *)
(***************************************************************************)
\* max_size taken from the first image alone
MaxSize_FirstImage(imgs) == imgs[1].shape

\* max_size = tuple(max(s) for s in zip(*[img.shape for img in images]))
MaxSize(imgs) ==
    [d \in 1 .. 3 |-> PyMax([i \in 1 .. Len(imgs) |-> imgs[i].shape[d]])]

\* batch_shape = (len(images),) + max_size
BatchShape(imgs) == <<Len(imgs)>> \o MaxSize(imgs)

\* torch.zeros(batch_shape, dtype=dtype)
Zeros(shape, dtype) ==
    [dtype |-> dtype, shape |-> shape, data |-> [p \in Idx4(shape) |-> 0]]

\* torch.ones((b, h, w), dtype=torch.bool)
Ones(b, h, w) ==
    [shape |-> <<b, h, w>>,
     data |-> [p \in Range(b) \X Range(h) \X Range(w) |-> TRUE]]

\* pad_img[: img.shape[0], : img.shape[1], : img.shape[2]].copy_(img)
CopyImage(padded, i, img) ==
    [padded EXCEPT !.data =
        [p \in DOMAIN padded.data |->
            IF /\ p[1] = i
               /\ p[2] < img.shape[1]
               /\ p[3] < img.shape[2]
               /\ p[4] < img.shape[3]
            THEN Cast(img.data[<<p[2], p[3], p[4]>>], padded.dtype)
            ELSE padded.data[p]]]

\* m[: img.shape[1], : img.shape[2]] = False, with the dimensions confused
MarkReal_ChannelHeight(mask, i, img) ==
    [mask EXCEPT !.data =
        [p \in DOMAIN mask.data |->
            IF p[1] = i /\ p[2] < img.shape[1] /\ p[3] < img.shape[2]
            THEN FALSE ELSE mask.data[p]]]

\* m[: img.shape[1], : img.shape[2]] = False
MarkReal(mask, i, img) ==
    [mask EXCEPT !.data =
        [p \in DOMAIN mask.data |->
            IF p[1] = i /\ p[2] < img.shape[2] /\ p[3] < img.shape[3]
            THEN FALSE ELSE mask.data[p]]]

RECURSIVE PadLoop(_, _, _, _)
\* for img, pad_img, m in zip(images, padded_images, mask): ...
PadLoop(imgs, k, padded, mask) ==
    IF k > Len(imgs)
    THEN <<padded, mask>>
    ELSE PadLoop(imgs, k + 1, CopyImage(padded, k - 1, imgs[k]),
                 MarkReal(mask, k - 1, imgs[k]))

PadImages(imgs) ==
    LET batch_shape == BatchShape(imgs)
        dtype == imgs[1].dtype
    IN  PadLoop(imgs, 1, Zeros(batch_shape, dtype),
                Ones(batch_shape[1], batch_shape[3], batch_shape[4]))

(***************************************************************************)
(* MDETR._pad_text                                                         *)
(***************************************************************************)
TokenIds == {0, 1, 2}

DefaultPaddingIdx == 1

PaddingChoices == {DefaultPaddingIdx, 0}

\* token sequences are 0-based functions
TokenSeqs(max_len) == UNION {[Range(n) -> TokenIds] : n \in 0 .. max_len}

\* the lists of n token sequences
TextLists(n) == [1 .. n -> TokenSeqs(MaxTextLen)]

\* nn.utils.rnn.pad_sequence(..., padding_value) that ignores padding_value
PadSequence_ZeroFill(seqs, padding_value) ==
    LET max_len == PyMax([i \in 1 .. Len(seqs) |-> SizeOf(seqs[i])])
    IN  [shape |-> <<Len(seqs), max_len>>,
         data |-> [p \in Range(Len(seqs)) \X Range(max_len) |->
                     IF p[2] < SizeOf(seqs[p[1] + 1])
                     THEN seqs[p[1] + 1][p[2]]
                     ELSE 0]]

\* nn.utils.rnn.pad_sequence(text, batch_first=True, padding_value=padding_idx)
PadSequence(seqs, padding_value) ==
    LET max_len == PyMax([i \in 1 .. Len(seqs) |-> SizeOf(seqs[i])])
    IN  [shape |-> <<Len(seqs), max_len>>,
         data |-> [p \in Range(Len(seqs)) \X Range(max_len) |->
                     IF p[2] < SizeOf(seqs[p[1] + 1])
                     THEN seqs[p[1] + 1][p[2]]
                     ELSE padding_value]]

\* mask = padded_text != padding_idx
PadTokenMask_Negated(padded, pad) ==
    [shape |-> padded.shape,
     data |-> [p \in DOMAIN padded.data |-> padded.data[p] # pad]]

\* mask = padded_text == padding_idx
PadTokenMask(padded, pad) ==
    [shape |-> padded.shape,
     data |-> [p \in DOMAIN padded.data |-> padded.data[p] = pad]]

PadText(seqs, pad) ==
    LET padded == PadSequence(seqs, pad)
    IN  <<padded, PadTokenMask(padded, pad)>>

(***************************************************************************)
(* MDETR.forward.  The sub-modules (backbone, text encoder, transformer,   *)
(* heads) are kept as what they do to shapes and to positions: every cell  *)
(* of a tensor records which input position it was computed for.           *)
(***************************************************************************)
\* number of coordinates that represent the bounding box
BoxCoords == 4

\* nn.Embedding(num_queries, hidden_dim).weight: one row per object query
ObjectQueries(n) == [k \in Range(n) |-> <<"object", k>>]

\* nn.Embedding(num_extra_query_embeddings, hidden_dim).weight
ExtraQueries(n) == [k \in Range(n) |-> <<"extra", k>>]

\* the extra_query_embeddings mdetr_resnet101 builds
BuildExtra(num_extra_query_embeddings) ==
    IF ~IsNone(num_extra_query_embeddings)
    THEN Some(ExtraQueries(num_extra_query_embeddings.value))
    ELSE NoneVal

\* torch.cat([a, b]) along dimension 0
TorchCat(a, b) ==
    [k \in Range(SizeOf(a) + SizeOf(b)) |->
        IF k < SizeOf(a) THEN a[k] ELSE b[k - SizeOf(a)]]

\* query_embed = self.query_embed.weight, then the optional concatenation
BuildQuery(qe, extra) == IF ~IsNone(extra) THEN TorchCat(qe, extra.value) ELSE qe

\* self.transformer(...).decoder_hidden_states: [layers, batch, queries, dim]
Transformer(batch, q, layers) ==
    [l \in Range(layers) |->
        [b \in Range(batch) |->
            [k \in Range(SizeOf(q)) |-> [layer |-> l, batch |-> b, query |-> q[k]]]]]

\* decoder_hidden_states[0, :, -n_extra_embeddings:]
ExtraEmbeddings(states, n_extra_embeddings) ==
    [b \in DOMAIN states[0] |-> SliceFrom(states[0][b], -n_extra_embeddings)]

\* decoder_hidden_states[:, :, :-n_extra_embeddings]
Truncated(states, n_extra_embeddings) ==
    [l \in DOMAIN states |->
        [b \in DOMAIN states[l] |-> SliceTo(states[l][b], -n_extra_embeddings)]]

\* "Detach the extra embeddings from the hidden states returned by the decoder"
Detach(states, extra) ==
    IF ~IsNone(extra)
    THEN [decoder_hidden_states |-> Truncated(states, SizeOf(extra.value)),
          extra_embeddings |-> Some(ExtraEmbeddings(states, SizeOf(extra.value)))]
    ELSE [decoder_hidden_states |-> states, extra_embeddings |-> NoneVal]

\* transformer_output.decoder_hidden_states[-1]
FinalHiddenState(states) == states[PyIndex(-1, SizeOf(states))]

\* a head applied to every position: the last dimension becomes out_dim
ApplyHead(x, out_dim) ==
    [b \in DOMAIN x |-> [k \in DOMAIN x[b] |-> [input |-> x[b][k], dim |-> out_dim]]]

\* self.class_embed = nn.Linear(hidden_dim, num_classes + 1)
ClassEmbed(x, classes) == ApplyHead(x, classes + 1)

\* self.bbox_embed = MLP(hidden_dim, 4, ...), followed by sigmoid()
BBoxEmbed(x) == ApplyHead(x, BoxCoords)

(***************************************************************************)
(* ALBEFModel: the models and their momentum copies.  A module is the      *)
(* sequence of its parameters; a parameter is its data and requires_grad.  *)
(***************************************************************************)
NumModels == 5

\* nn.Linear has two parameters, weight and bias
NumParams == 2

ParamValues == 0 .. MaxParamVal

\* the parameter values of n modules
ModelValues(n) == [1 .. n -> [1 .. NumParams -> ParamValues]]

Module(vals, grad) ==
    [p \in 1 .. NumParams |-> [data |-> vals[p], requires_grad |-> grad]]

\* a freshly initialised nn.Linear(3, 2)
FreshModules(v) ==
    [k \in 1 .. NumModels |-> Module([p \in 1 .. NumParams |-> (v + p) % (MaxParamVal + 1)], TRUE)]

\* the copy loop without the requires_grad assignment
CopyParam_KeepGrad(param, param_m) == [param_m EXCEPT !.data = param.data]

\* param_m.data.copy_(param.data); param_m.requires_grad = False
CopyParam(param, param_m) ==
    [param_m EXCEPT !.data = param.data, !.requires_grad = FALSE]

\* for model, model_m in zip(...): for param, param_m in zip(...): ...
CopyParamsMomentumModels(ms, ms_m) ==
    [k \in DOMAIN ms_m |->
        IF k \in DOMAIN ms
        THEN [p \in DOMAIN ms_m[k] |->
                IF p \in DOMAIN ms[k] THEN CopyParam(ms[k][p], ms_m[k][p]) ELSE ms_m[k][p]]
        ELSE ms_m[k]]

(***************************************************************************)
(* A call of MDETR._pad_images on a list of images.                        *)
(***************************************************************************)
InitPadImages ==
    /\ pc = "pad_images"
    /\ \E n \in 1 .. MaxImages : images \in ImageLists(n)
    /\ padded_images = NoneVal /\ image_mask = NoneVal
    /\ text = NoneVal /\ padding_idx = DefaultPaddingIdx
    /\ padded_text = NoneVal /\ text_mask = NoneVal
    /\ query_embed = NoneVal /\ extra_query_embeddings = NoneVal
    /\ num_classes = 0 /\ dec_layers = 0
    /\ query = NoneVal /\ hs = NoneVal /\ output = NoneVal
    /\ models = NoneVal /\ models_m = NoneVal

PadImagesCall ==
    /\ pc = "pad_images"
    /\ LET r == PadImages(images)
       IN  /\ padded_images' = r[1]
           /\ image_mask' = r[2]
    /\ pc' = "pad_images_done"
    /\ UNCHANGED <<images, text, padding_idx, padded_text, text_mask, query_embed,
                   extra_query_embeddings, num_classes, dec_layers, query, hs, output,
                   models, models_m>>

NextPadImages == PadImagesCall

SpecPadImages == InitPadImages /\ [][NextPadImages]_vars

(***************************************************************************)
(* A call of MDETR._pad_text on a list of token sequences.                 *)
(***************************************************************************)
InitPadText ==
    /\ pc = "pad_text"
    /\ \E n \in 1 .. MaxTexts : text \in TextLists(n)
    /\ padding_idx \in PaddingChoices
    /\ images = NoneVal /\ padded_images = NoneVal /\ image_mask = NoneVal
    /\ padded_text = NoneVal /\ text_mask = NoneVal
    /\ query_embed = NoneVal /\ extra_query_embeddings = NoneVal
    /\ num_classes = 0 /\ dec_layers = 0
    /\ query = NoneVal /\ hs = NoneVal /\ output = NoneVal
    /\ models = NoneVal /\ models_m = NoneVal

PadTextCall ==
    /\ pc = "pad_text"
    /\ LET r == PadText(text, padding_idx)
       IN  /\ padded_text' = r[1]
           /\ text_mask' = r[2]
    /\ pc' = "pad_text_done"
    /\ UNCHANGED <<images, padded_images, image_mask, text, padding_idx, query_embed,
                   extra_query_embeddings, num_classes, dec_layers, query, hs, output,
                   models, models_m>>

NextPadText == PadTextCall

SpecPadText == InitPadText /\ [][NextPadText]_vars

(***************************************************************************)
(* A call of MDETR.forward on a model built as mdetr_resnet101 builds it.  *)
(***************************************************************************)
\* batches of 1 .. MaxImages images of differing heights
ForwardImages(n) ==
    [i \in 1 .. n |-> ImageOf("float32", <<1, 1 + (i % MaxSide), 1>>, i)]

\* one token sequence per image, of differing lengths
ForwardText(n) == [i \in 1 .. n |-> [k \in Range(1 + (i % MaxTextLen)) |-> 2]]

ExtraChoices == {NoneVal} \cup {Some(n) : n \in 0 .. MaxExtra}

InitForward ==
    /\ pc = "forward"
    /\ \E n \in 1 .. MaxImages : images = ForwardImages(n)
    /\ text = ForwardText(Len(images))
    /\ padding_idx = DefaultPaddingIdx
    /\ padded_images = NoneVal /\ image_mask = NoneVal
    /\ padded_text = NoneVal /\ text_mask = NoneVal
    /\ query_embed \in {ObjectQueries(n) : n \in 1 .. MaxQueries}
    /\ extra_query_embeddings \in {BuildExtra(x) : x \in ExtraChoices}
    /\ num_classes \in 1 .. MaxClasses
    /\ dec_layers \in 1 .. MaxLayers
    /\ query = NoneVal /\ hs = NoneVal /\ output = NoneVal
    /\ models = NoneVal /\ models_m = NoneVal

\* images, image_mask = self._pad_images(images); text, mask = self._pad_text(text)
FwdPad ==
    /\ pc = "forward"
    /\ LET r == PadImages(images)
           t == PadText(text, DefaultPaddingIdx)
       IN  /\ padded_images' = r[1]
           /\ image_mask' = r[2]
           /\ padded_text' = t[1]
           /\ text_mask' = t[2]
    /\ pc' = "padded"
    /\ UNCHANGED <<images, text, padding_idx, query_embed, extra_query_embeddings,
                   num_classes, dec_layers, query, hs, output, models, models_m>>

\* query_embed = self.query_embed.weight, concatenated with the extra embeddings
FwdQuery ==
    /\ pc = "padded"
    /\ query' = BuildQuery(query_embed, extra_query_embeddings)
    /\ pc' = "queried"
    /\ UNCHANGED <<images, padded_images, image_mask, text, padding_idx, padded_text,
                   text_mask, query_embed, extra_query_embeddings, num_classes,
                   dec_layers, hs, output, models, models_m>>

\* transformer_output = self.transformer(...)
FwdTransformer ==
    /\ pc = "queried"
    /\ hs' = Transformer(padded_images.shape[1], query, dec_layers)
    /\ pc' = "transformed"
    /\ UNCHANGED <<images, padded_images, image_mask, text, padding_idx, padded_text,
                   text_mask, query_embed, extra_query_embeddings, num_classes,
                   dec_layers, query, output, models, models_m>>

\* detach the extra embeddings, apply the heads, return the MDETRModelOutput
FwdReturn ==
    /\ pc = "transformed"
    /\ LET d == Detach(hs, extra_query_embeddings)
           final_hidden_state == FinalHiddenState(d.decoder_hidden_states)
       IN  output' = [transformer_output |-> d.decoder_hidden_states,
                      pred_logits |-> ClassEmbed(final_hidden_state, num_classes),
                      pred_boxes |-> BBoxEmbed(final_hidden_state),
                      extra_embeddings |-> d.extra_embeddings]
    /\ pc' = "done"
    /\ UNCHANGED <<images, padded_images, image_mask, text, padding_idx, padded_text,
                   text_mask, query_embed, extra_query_embeddings, num_classes,
                   dec_layers, query, hs, models, models_m>>

NextForward == FwdPad \/ FwdQuery \/ FwdTransformer \/ FwdReturn

SpecForward == InitForward /\ [][NextForward]_vars

(***************************************************************************)
(* The ALBEF momentum models, driven as test_copy_params_momentum_models   *)
(* drives them.                                                            *)
(***************************************************************************)
InitAlbef ==
    /\ pc = "albef_constructed"
    /\ \E vals \in ModelValues(NumModels) :
         /\ models = [k \in 1 .. NumModels |-> Module(vals[k], TRUE)]
         /\ models_m = [k \in 1 .. NumModels |-> Module(vals[k], FALSE)]
    /\ images = NoneVal /\ padded_images = NoneVal /\ image_mask = NoneVal
    /\ text = NoneVal /\ padding_idx = DefaultPaddingIdx
    /\ padded_text = NoneVal /\ text_mask = NoneVal
    /\ query_embed = NoneVal /\ extra_query_embeddings = NoneVal
    /\ num_classes = 0 /\ dec_layers = 0
    /\ query = NoneVal /\ hs = NoneVal /\ output = NoneVal

\* self.albef.models_m = [nn.Linear(3, 2) for _ in range(5)]
ReplaceMomentumModels ==
    /\ pc \in {"albef_constructed", "albef_copied"}
    /\ \E v \in ParamValues : models_m' = FreshModules(v)
    /\ pc' = "albef_replaced"
    /\ UNCHANGED <<images, padded_images, image_mask, text, padding_idx, padded_text,
                   text_mask, query_embed, extra_query_embeddings, num_classes,
                   dec_layers, query, hs, output, models>>

\* self.albef._copy_params_momentum_models()
CopyParamsCall ==
    /\ pc = "albef_replaced"
    /\ models_m' = CopyParamsMomentumModels(models, models_m)
    /\ pc' = "albef_copied"
    /\ UNCHANGED <<images, padded_images, image_mask, text, padding_idx, padded_text,
                   text_mask, query_embed, extra_query_embeddings, num_classes,
                   dec_layers, query, hs, output, models>>

NextAlbef == ReplaceMomentumModels \/ CopyParamsCall

SpecAlbef == InitAlbef /\ [][NextAlbef]_vars

(***************************************************************************)
(* The whole model.                                                        *)
(***************************************************************************)
Init == InitPadImages \/ InitPadText \/ InitForward \/ InitAlbef

Next == NextPadImages \/ NextPadText \/ NextForward \/ NextAlbef

Spec == Init /\ [][Next]_vars

(***************************************************************************)
(* Properties.                                                             *)
(***************************************************************************)
\* the sizes the claims speak of
NumImages == Len(images)

NumQueries == SizeOf(query_embed)

NumExtra == SizeOf(extra_query_embeddings.value)

MaxC == PyMax([i \in 1 .. Len(images) |-> images[i].shape[1]])

MaxH == PyMax([i \in 1 .. Len(images) |-> images[i].shape[2]])

MaxW == PyMax([i \in 1 .. Len(images) |-> images[i].shape[3]])

MaxL == PyMax([i \in 1 .. Len(text) |-> SizeOf(text[i])])

\* position p of the padded batch lies inside image p[1]
InsideImage(p) ==
    LET img == images[p[1] + 1]
    IN  p[2] < img.shape[1] /\ p[3] < img.shape[2] /\ p[4] < img.shape[3]

\* C1: after _copy_params_momentum_models every momentum parameter has the
\* value of the model parameter at the same position and requires_grad =
\* False, whatever the momentum models held before the call.
C1_MomentumCopy ==
    pc = "albef_copied" =>
        /\ DOMAIN models_m = 1 .. NumModels
        /\ \A k \in 1 .. NumModels :
             /\ DOMAIN models_m[k] = DOMAIN models[k]
             /\ \A p \in DOMAIN models[k] :
                  /\ models_m[k][p].data = models[k][p].data
                  /\ ~models_m[k][p].requires_grad

\* C1 witness: the copy ran over models whose parameters are not all alike,
\* so the freshly initialised momentum modules it overwrote differed from them.
C1_Witness ==
    /\ pc = "albef_copied"
    /\ \E k \in 1 .. NumModels : models[k][1].data # models[k][2].data
    /\ \E k, j \in 1 .. NumModels : models[k][1].data # models[j][1].data

\* C2: forward returns pred_logits of shape [batch x num_queries x
\* (num_classes + 1)] and pred_boxes of shape [batch x num_queries x 4],
\* batch = len(images), num_queries = rows of query_embed only, both computed
\* from the last decoder hidden state, also when extra embeddings are given.
C2_OutputShapes ==
    pc = "done" =>
        /\ DOMAIN output.pred_logits = Range(NumImages)
        /\ DOMAIN output.pred_boxes = Range(NumImages)
        /\ \A b \in Range(NumImages) :
             /\ DOMAIN output.pred_logits[b] = Range(NumQueries)
             /\ DOMAIN output.pred_boxes[b] = Range(NumQueries)
             /\ \A k \in Range(NumQueries) :
                  /\ output.pred_logits[b][k] =
                        [input |-> hs[dec_layers - 1][b][k], dim |-> num_classes + 1]
                  /\ output.pred_boxes[b][k] =
                        [input |-> hs[dec_layers - 1][b][k], dim |-> BoxCoords]

\* C3: with n extra query embeddings (n >= 0), forward splits the query axis
\* of length num_queries + n: extra_embeddings are exactly the last n query
\* positions of decoder_hidden_states[0], and the kept decoder_hidden_states
\* are exactly the first num_queries positions of every layer.
C3_SplitQueryAxis ==
    (pc = "done" /\ ~IsNone(extra_query_embeddings)) =>
        /\ \A l \in Range(dec_layers) : \A b \in Range(NumImages) :
             DOMAIN hs[l][b] = Range(NumQueries + NumExtra)
        /\ ~IsNone(output.extra_embeddings)
        /\ output.extra_embeddings.value =
             [b \in Range(NumImages) |->
                [k \in Range(NumExtra) |-> hs[0][b][NumQueries + k]]]
        /\ output.transformer_output =
             [l \in Range(dec_layers) |->
                [b \in Range(NumImages) |->
                   [k \in Range(NumQueries) |-> hs[l][b][k]]]]

\* C4: _pad_images returns a batch of shape (len(images), max C, max H,
\* max W) whose block [0:C_i, 0:H_i, 0:W_i] of element i equals image i
\* element for element, every other entry being 0.
C4_PaddedEqualsImage ==
    pc = "pad_images_done" =>
        /\ padded_images.shape = <<NumImages, MaxC, MaxH, MaxW>>
        /\ DOMAIN padded_images.data = Idx4(padded_images.shape)
        /\ \A p \in Idx4(padded_images.shape) :
             padded_images.data[p] =
                IF InsideImage(p)
                THEN images[p[1] + 1].data[<<p[2], p[3], p[4]>>]
                ELSE 0

\* C4, amended: the block of element i equals image i converted to the dtype
\* of images[0] (the dtype of the batch), every other entry being 0; the
\* input images are not modified.
C4_PaddedEqualsCastImage ==
    /\ [](pc = "pad_images_done" =>
            /\ padded_images.shape = <<NumImages, MaxC, MaxH, MaxW>>
            /\ padded_images.dtype = images[1].dtype
            /\ DOMAIN padded_images.data = Idx4(padded_images.shape)
            /\ \A p \in Idx4(padded_images.shape) :
                 padded_images.data[p] =
                    IF InsideImage(p)
                    THEN Cast(images[p[1] + 1].data[<<p[2], p[3], p[4]>>],
                              images[1].dtype)
                    ELSE 0)
    /\ [][images' = images]_vars

\* C4 witness: a padded batch of images of different shapes and dtypes, one
\* of which lost a fractional value in the conversion.
C4_Witness ==
    /\ pc = "pad_images_done"
    /\ \E i, j \in 1 .. NumImages :
          /\ images[i].shape # images[j].shape
          /\ images[i].dtype # images[j].dtype
    /\ \E p \in Idx4(padded_images.shape) : ~InsideImage(p)
    /\ \E p \in Idx4(padded_images.shape) :
          /\ InsideImage(p)
          /\ padded_images.data[p] # images[p[1] + 1].data[<<p[2], p[3], p[4]>>]

\* C5: _pad_text returns a tensor of shape (len(text), max L) whose row i
\* holds sequence i in order at positions 0 .. L_i - 1 and padding_idx at
\* every position j >= L_i.
C5_PaddedText ==
    pc = "pad_text_done" =>
        /\ padded_text.shape = <<Len(text), MaxL>>
        /\ DOMAIN padded_text.data = Range(Len(text)) \X Range(MaxL)
        /\ \A p \in Range(Len(text)) \X Range(MaxL) :
             padded_text.data[p] =
                IF p[2] < SizeOf(text[p[1] + 1])
                THEN text[p[1] + 1][p[2]]
                ELSE padding_idx

\* C5 witness: a padded batch with sequences of different lengths, one of
\* them empty, and padding other than 0.
C5_Witness ==
    /\ pc = "pad_text_done"
    /\ padding_idx # 0
    /\ \E i, j \in 1 .. Len(text) :
          SizeOf(text[i]) = 0 /\ SizeOf(text[j]) = MaxTextLen
    /\ \E p \in DOMAIN padded_text.data : padded_text.data[p] = padding_idx

\* C6: the image mask has shape (len(images), max H, max W) and is False at
\* (i, y, x) exactly when y < H_i and x < W_i; it depends on heights and
\* widths only.
C6_ImageMask ==
    pc = "pad_images_done" =>
        /\ image_mask.shape = <<NumImages, MaxH, MaxW>>
        /\ DOMAIN image_mask.data = Range(NumImages) \X Range(MaxH) \X Range(MaxW)
        /\ \A p \in Range(NumImages) \X Range(MaxH) \X Range(MaxW) :
             image_mask.data[p] =
                ~(p[2] < images[p[1] + 1].shape[2] /\ p[3] < images[p[1] + 1].shape[3])

\* C6 witness: a mask holding real and padded pixels, for images whose
\* channel counts differ from each other and from their heights.
C6_Witness ==
    /\ pc = "pad_images_done"
    /\ \E p \in DOMAIN image_mask.data : image_mask.data[p]
    /\ \E p \in DOMAIN image_mask.data : ~image_mask.data[p]
    /\ \E i, j \in 1 .. NumImages :
          /\ images[i].shape[1] # images[j].shape[1]
          /\ images[i].shape[1] # images[i].shape[2]

\* C7: the text mask marks exactly the padding: mask[i][j] is True exactly
\* when j >= L_i, also for sequences that contain padding_idx themselves.
C7_MaskIsPadding ==
    pc = "pad_text_done" =>
        /\ DOMAIN text_mask.data = Range(Len(text)) \X Range(MaxL)
        /\ \A p \in Range(Len(text)) \X Range(MaxL) :
             text_mask.data[p] = (p[2] >= SizeOf(text[p[1] + 1]))

\* C7, amended: mask[i][j] is True exactly when j >= L_i or token j of
\* sequence i is padding_idx.
C7_MaskIsPaddingValue ==
    pc = "pad_text_done" =>
        /\ text_mask.shape = <<Len(text), MaxL>>
        /\ DOMAIN text_mask.data = Range(Len(text)) \X Range(MaxL)
        /\ \A p \in Range(Len(text)) \X Range(MaxL) :
             text_mask.data[p] =
                (\/ p[2] >= SizeOf(text[p[1] + 1])
                 \/ text[p[1] + 1][p[2]] = padding_idx)

\* C7 witness: a mask over a batch holding added padding, a token equal to
\* padding_idx and a token different from it.
C7_Witness ==
    /\ pc = "pad_text_done"
    /\ \E p \in DOMAIN text_mask.data : p[2] >= SizeOf(text[p[1] + 1])
    /\ \E p \in DOMAIN text_mask.data :
          p[2] < SizeOf(text[p[1] + 1]) /\ text[p[1] + 1][p[2]] = padding_idx
    /\ \E p \in DOMAIN text_mask.data :
          p[2] < SizeOf(text[p[1] + 1]) /\ text[p[1] + 1][p[2]] # padding_idx

\* C8: the query tensor handed to the transformer is query_embed.weight
\* followed by extra_query_embeddings.weight (num_queries + n rows, object
\* queries first), so the positions sliced off as extra_embeddings are the
\* positions of the extra queries.
C8_QueryOrder ==
    /\ (pc \in {"queried", "transformed", "done"} /\ ~IsNone(extra_query_embeddings)) =>
          /\ DOMAIN query = Range(NumQueries + NumExtra)
          /\ \A k \in Range(NumQueries) : query[k] = query_embed[k]
          /\ \A k \in Range(NumExtra) :
               query[NumQueries + k] = extra_query_embeddings.value[k]
    /\ (pc = "done" /\ ~IsNone(extra_query_embeddings)) =>
          \A b \in DOMAIN output.extra_embeddings.value :
             /\ DOMAIN output.extra_embeddings.value[b] = Range(NumExtra)
             /\ \A k \in DOMAIN output.extra_embeddings.value[b] :
                  output.extra_embeddings.value[b][k].query =
                     extra_query_embeddings.value[k]

====
